---------------------------- MODULE Spec2Model ----------------------------
(***************************************************************************)
(* Model of src/src/app.py: the registry PUBLIC_FILES, its rebuild by       *)
(* load_files_from_json (run once by the main thread, then forever by the   *)
(* background refresh thread), the request handlers that read it, and the   *)
(* pure helpers slugify and maybe_add_embedded_param.                       *)
(*                                                                         *)
(* Python strings are TLA+ strings; the helpers work on them character by   *)
(* character with Len, SubSeq and \o.                                       *)
(***************************************************************************)
EXTENDS Integers, Sequences, FiniteSets, TLC

VARIABLES
    PUBLIC_FILES,   \* the global dict slug -> entry (app.py:23)
    mainPc,         \* position of the main thread in the __main__ block
    refreshPc,      \* position of the refresh thread in background_refresh_loop
    ldPc,           \* per thread: position inside load_files_from_json
    data,           \* per thread: the local `data` (the parsed JSON value)
    file_map,       \* per thread: the local `file_map`
    idx,            \* per thread: position of the for loop in `data`
    rqPc,           \* position of the request being handled (in view_file)
    rqSlug,         \* the <slug> of the route
    file_data,      \* the handler's local `file_data`
    snapCurrent,    \* is the dict read by the handler's lookup still the one
                    \* bound to PUBLIC_FILES (object identity of the dict)
    resp,           \* what the last handler returned (the menu rows left out)
    hStage,         \* pure-function harness: how often the function was applied
    hArg,           \* pure-function harness: the argument
    hOnce,          \* pure-function harness: f(arg)
    hTwice          \* pure-function harness: f(f(arg))

vars == <<PUBLIC_FILES, mainPc, refreshPc, ldPc, data, file_map, idx,
          rqPc, rqSlug, file_data, snapCurrent, resp,
          hStage, hArg, hOnce, hTwice>>

progVars == <<PUBLIC_FILES, mainPc, refreshPc, ldPc, data, file_map, idx,
              rqPc, rqSlug, file_data, snapCurrent, resp>>

harnessVars == <<hStage, hArg, hOnce, hTwice>>

---------------------------------------------------------------------------
(* Bounds *)

\* longest list of records in the declarative file
MaxRecords == 2
\* longest title handed to slugify by the slugify harness
MaxTitleLen == 3
\* most URL fragments concatenated by the URL harness
MaxUrlParts == 3

---------------------------------------------------------------------------
(* Strings *)

Char(s, i) == SubSeq(s, i, i)

UpperChars == "ABCDEFGHIJKLMNOPQRSTUVWXYZ"
LowerChars == "abcdefghijklmnopqrstuvwxyz"
DigitChars == "0123456789"

CharsOf(s) == {Char(s, i) : i \in 1..Len(s)}

\* \s of the regular expressions and the default of str.strip()
Whitespace == {" ", "\t", "\n"}

\* str.lower() on the letters A-Z
LowerOf ==
    [c \in CharsOf(UpperChars) |->
        Char(LowerChars, CHOOSE i \in 1..Len(UpperChars) : Char(UpperChars, i) = c)]

\* str.lower(), one character
LowerChar(c) == IF c \in DOMAIN LowerOf THEN LowerOf[c] ELSE c

RECURSIVE Lower(_)
Lower(s) == IF s = "" THEN "" ELSE LowerChar(Char(s, 1)) \o Lower(SubSeq(s, 2, Len(s)))

\* re.sub over single characters: drop every character of s that is in `drop`
RECURSIVE RemoveChars(_, _)
RemoveChars(s, drop) ==
    IF s = "" THEN ""
    ELSE (IF Char(s, 1) \in drop THEN "" ELSE Char(s, 1))
         \o RemoveChars(SubSeq(s, 2, Len(s)), drop)

\* str.strip(chars)
RECURSIVE LStrip(_, _)
LStrip(s, cs) ==
    IF s # "" /\ Char(s, 1) \in cs THEN LStrip(SubSeq(s, 2, Len(s)), cs) ELSE s

RECURSIVE RStrip(_, _)
RStrip(s, cs) ==
    IF s # "" /\ Char(s, Len(s)) \in cs THEN RStrip(SubSeq(s, 1, Len(s) - 1), cs) ELSE s

Strip(s, cs) == RStrip(LStrip(s, cs), cs)

\* `t in s`
Contains(s, t) ==
    \E i \in 1..(Len(s) - Len(t) + 1) : SubSeq(s, i, i + Len(t) - 1) = t

\* the class [a-z0-9_\-\s] of slugify's first substitution
SlugAllowed == CharsOf(LowerChars) \cup CharsOf(DigitChars) \cup {"_", "-"} \cup Whitespace

\* re.sub with a negated class: keep only the characters of s that are in `keep`
RECURSIVE KeepChars(_, _)
KeepChars(s, keep) ==
    IF s = "" THEN ""
    ELSE (IF Char(s, 1) \in keep THEN Char(s, 1) ELSE "")
         \o KeepChars(SubSeq(s, 2, Len(s)), keep)


---------------------------------------------------------------------------
(* slugify and maybe_add_embedded_param *)

\* slugify with the dashes stripped before the whitespace is removed
slugifyStripFirst(title) ==
    RemoveChars(Strip(KeepChars(Lower(title), SlugAllowed), {"-"}), Whitespace)

slugify(title) ==
    LET s1 == Lower(title)                    \* s = title.lower()
        s2 == KeepChars(s1, SlugAllowed)      \* re.sub(r'[^a-z0-9_\-\s]+', '', s)
        s3 == RemoveChars(s2, Whitespace)     \* re.sub(r'\s+', '', s)
    IN  Strip(s3, {"-"})                      \* s.strip('-')

\* maybe_add_embedded_param without the test for "docs.google.com" (line 33)
maybeAddAnyHost(url) ==
    IF Contains(url, "/pub") /\ ~Contains(url, "embedded=true")
    THEN url \o (IF Contains(url, "?") THEN "&" ELSE "?") \o "embedded=true"
    ELSE url

\* maybe_add_embedded_param without the test for an embedded=true already there
maybeAddAlways(url) ==
    IF Contains(url, "docs.google.com") /\ Contains(url, "/pub")
    THEN url \o (IF Contains(url, "?") THEN "&" ELSE "?") \o "embedded=true"
    ELSE url

maybe_add_embedded_param(url) ==
    IF Contains(url, "docs.google.com") /\ Contains(url, "/pub")
       /\ ~Contains(url, "embedded=true")
    THEN url \o (IF Contains(url, "?") THEN "&" ELSE "?") \o "embedded=true"
    ELSE url

---------------------------------------------------------------------------
(* JSON values, as json.load returns them *)

JStr(s) == [t |-> "str", s |-> s]
\* any JSON value that is neither a string, a list nor an object (a number, null)
JNum == [t |-> "num"]
\* a key that the object does not have
JAbsent == [t |-> "absent"]
JObj(title, url) == [t |-> "object", title |-> title, url |-> url]
JList(items) == [t |-> "list", items |-> items]
\* a top-level object: iterating it yields its keys
JDict(keys) == [t |-> "dict", keys |-> keys]

\* what `for entry in data` iterates over
Iterable(v) == v.t \in {"list", "dict"}
Items(v) ==
    IF v.t = "list" THEN v.items
    ELSE IF v.t = "dict" THEN [i \in 1..Len(v.keys) |-> JStr(v.keys[i])]
    ELSE <<>>

---------------------------------------------------------------------------
(* The dict PUBLIC_FILES / file_map: a function from slugs to entries *)

EmptyMap == [s \in {} |-> [title |-> "", url |-> "", iframeUrl |-> ""]]

\* file_map.setdefault(slug, ...): the first entry of a key stays
PutKeepFirst(m, k, v) == [s \in (DOMAIN m) \cup {k} |-> IF s \in DOMAIN m THEN m[s] ELSE v]

\* file_map[slug] = ... (lines 75-79)
Put(m, k, v) == [s \in (DOMAIN m) \cup {k} |-> IF s = k THEN v ELSE m[s]]

None == [t |-> "none"]

\* dict.get(slug)
Get(m, slug) == IF slug \in DOMAIN m THEN m[slug] ELSE None

---------------------------------------------------------------------------
(* One iteration of the for loop of load_files_from_json (lines 66-79) *)

\* entry.get("title", "Untitled")
EntryTitle(entry) == IF entry.title.t = "absent" THEN JStr("Untitled") ELSE entry.title

\* entry.get("url", "")
EntryUrl(entry) == IF entry.url.t = "absent" THEN JStr("") ELSE entry.url

\* Does the iteration raise? entry.get needs a dict, .strip() a str url,
\* and slugify (reached only with a non-blank url) a str title.
BodyRaises(entry) ==
    \/ entry.t # "object"
    \/ EntryUrl(entry).t # "str"
    \/ /\ Strip(EntryUrl(entry).s, Whitespace) # ""
       /\ EntryTitle(entry).t # "str"

\* `if not url: continue` on a url that line 69 did not strip
BodySkipsUnstripped(entry) == EntryUrl(entry).s = ""

\* `if not url: continue`
BodySkips(entry) == Strip(EntryUrl(entry).s, Whitespace) = ""

\* the iteration with line 69 without .strip(): the url is stored as written
BodyInsertUnstripped(fm, entry) ==
    LET title == EntryTitle(entry).s
        url == EntryUrl(entry).s
        iframe_url == maybe_add_embedded_param(url)
        slug == slugify(title)
    IN  Put(fm, slug, [title |-> title, url |-> url, iframeUrl |-> iframe_url])

\* file_map after the iteration, for an entry that neither raises nor is skipped
BodyInsert(fm, entry) ==
    LET title == EntryTitle(entry).s
        url == Strip(EntryUrl(entry).s, Whitespace)
        iframe_url == maybe_add_embedded_param(url)
        slug == slugify(title)
    IN  Put(fm, slug, [title |-> title, url |-> url, iframeUrl |-> iframe_url])

---------------------------------------------------------------------------
(* The declarative file: what a cycle can find at DATA_JSON_PATH *)

DocEditUrl == "https://docs.google.com/document/d/ABC/edit"
DocPubUrl == "https://docs.google.com/document/d/e/XYZ/pub"

\* records with a string title and a string url, and the malformed ones
Records ==
    {JObj(JStr("Q1 Report"), JStr(" " \o DocPubUrl \o "\n")),
     JObj(JStr("Q1  Report!"), JStr(DocEditUrl)),
     JObj(JStr("My Doc"), JStr(DocEditUrl)),
     JObj(JStr("!!!"), JStr(DocEditUrl)),
     JObj(JStr("My Doc"), JStr("   ")),    \* a blank url
     JObj(JAbsent, JStr(DocEditUrl)),      \* no "title" key
     JObj(JStr("My Doc"), JAbsent),        \* no "url" key
     JObj(JNum, JStr(DocEditUrl)),         \* a title that is not a string
     JObj(JStr("My Doc"), JNum),           \* a url that is not a string
     JNum}                                 \* a record that is not an object

RecordLists == UNION {[1..n -> Records] : n \in 0..MaxRecords}

\* what json.load can return
ParsedValues ==
    {JList(items) : items \in RecordLists} \cup {JNum, JDict(<<>>), JDict(<<"title">>)}

\* what open + json.load can raise: OSError and JSONDecodeError are caught on
\* line 60; a file that is not valid UTF-8 raises UnicodeDecodeError, which is
\* a ValueError but not a JSONDecodeError
LoadErrors == {"OSError", "JSONDecodeError", "UnicodeDecodeError"}
CaughtErrors == {"OSError", "JSONDecodeError"}

Threads == {"main", "refresh"}

RequestSlugs == {"mydoc", "nosuchslug"}

\* no handler has returned yet, or view_file is still at work
NoResponse == [kind |-> "none"]

---------------------------------------------------------------------------
(* Init *)

ProgInit ==
    /\ PUBLIC_FILES = EmptyMap                      \* line 23
    /\ mainPc = "load"                              \* line 179
    /\ refreshPc = "not_started"
    /\ ldPc = [t \in Threads |-> IF t = "main" THEN "exists" ELSE "none"]
    /\ data = [t \in Threads |-> None]
    /\ file_map = [t \in Threads |-> EmptyMap]
    /\ idx = [t \in Threads |-> 0]
    /\ rqPc = "idle"
    /\ rqSlug = ""
    /\ file_data = None
    /\ snapCurrent = TRUE
    /\ resp = NoResponse

HarnessOff ==
    /\ hStage = "off"
    /\ hArg = ""
    /\ hOnce = ""
    /\ hTwice = ""

Init == ProgInit /\ HarnessOff

---------------------------------------------------------------------------
(* load_files_from_json, run by thread t *)

\* an assignment to the global: the dict a pending lookup read is no longer
\* the one PUBLIC_FILES names
Rebind(m) ==
    /\ PUBLIC_FILES' = m
    /\ snapCurrent' = IF rqPc = "lookup_done" THEN FALSE ELSE snapCurrent

\* an exception leaves load_files_from_json; nothing in the callers catches
\* it, so the thread that called dies (the main thread: before app.run)
Raise(t) ==
    /\ ldPc' = [ldPc EXCEPT ![t] = "none"]
    /\ data' = [data EXCEPT ![t] = None]
    /\ file_map' = [file_map EXCEPT ![t] = EmptyMap]
    /\ idx' = [idx EXCEPT ![t] = 0]
    /\ IF t = "main"
       THEN mainPc' = "crashed" /\ UNCHANGED refreshPc
       ELSE refreshPc' = "crashed" /\ UNCHANGED mainPc

reqVars == <<rqPc, rqSlug, file_data, resp>>

\* lines 52-55 with the return of line 55 but not the assignment of line 54
LoadExistsKeep(t) ==
    /\ ldPc[t] = "exists"
    /\ \E exists \in BOOLEAN :
          ldPc' = [ldPc EXCEPT ![t] = IF exists THEN "open" ELSE "ret_missing"]
    /\ UNCHANGED <<PUBLIC_FILES, snapCurrent, mainPc, refreshPc, data, file_map, idx,
                   reqVars, harnessVars>>

\* lines 52-55
LoadExists(t) ==
    /\ ldPc[t] = "exists"
    /\ \E exists \in BOOLEAN :
          IF exists
          THEN /\ ldPc' = [ldPc EXCEPT ![t] = "open"]
               /\ UNCHANGED <<PUBLIC_FILES, snapCurrent>>
          ELSE /\ Rebind(EmptyMap)
               /\ ldPc' = [ldPc EXCEPT ![t] = "ret_missing"]
    /\ UNCHANGED <<mainPc, refreshPc, data, file_map, idx, reqVars, harnessVars>>

\* lines 57-63, the exception path
LoadOpenError(t) ==
    /\ ldPc[t] = "open"
    /\ \E e \in LoadErrors :
          IF e \in CaughtErrors
          THEN /\ Rebind(EmptyMap)
               /\ ldPc' = [ldPc EXCEPT ![t] = "ret_error"]
               /\ UNCHANGED <<mainPc, refreshPc, data, file_map, idx>>
          ELSE /\ Raise(t)
               /\ UNCHANGED <<PUBLIC_FILES, snapCurrent>>
    /\ UNCHANGED <<reqVars, harnessVars>>

\* lines 57-59 and 65: the file parses
LoadOpenOk(t) ==
    /\ ldPc[t] = "open"
    /\ \E v \in ParsedValues :
          /\ data' = [data EXCEPT ![t] = v]
          /\ file_map' = [file_map EXCEPT ![t] = EmptyMap]
          /\ idx' = [idx EXCEPT ![t] = 1]
          /\ ldPc' = [ldPc EXCEPT ![t] = "loop"]
    /\ UNCHANGED <<PUBLIC_FILES, snapCurrent, mainPc, refreshPc, reqVars, harnessVars>>

\* lines 66-79: one iteration of the for loop (or the TypeError of iterating
\* a value that is not iterable)
LoadLoop(t) ==
    /\ ldPc[t] = "loop"
    /\ ~Iterable(data[t]) \/ idx[t] <= Len(Items(data[t]))
    /\ IF ~Iterable(data[t]) \/ BodyRaises(Items(data[t])[idx[t]])
       THEN Raise(t)
       ELSE /\ idx' = [idx EXCEPT ![t] = @ + 1]
            /\ file_map' = [file_map EXCEPT ![t] =
                   IF BodySkips(Items(data[t])[idx[t]])
                   THEN @
                   ELSE BodyInsert(@, Items(data[t])[idx[t]])]
            /\ UNCHANGED <<ldPc, data, mainPc, refreshPc>>
    /\ UNCHANGED <<PUBLIC_FILES, snapCurrent, reqVars, harnessVars>>

\* line 81, with the dict built in place in the global instead of in file_map
LoadPublishInPlace(t) ==
    /\ ldPc[t] = "loop"
    /\ Iterable(data[t])
    /\ \/ /\ idx[t] > Len(Items(data[t]))
          /\ Rebind(file_map[t])
          /\ ldPc' = [ldPc EXCEPT ![t] = "ret_ok"]
       \/ /\ idx[t] <= Len(Items(data[t]))
          /\ PUBLIC_FILES' = file_map[t]
          /\ UNCHANGED <<ldPc, snapCurrent>>
    /\ UNCHANGED <<mainPc, refreshPc, data, file_map, idx, reqVars, harnessVars>>

\* line 81: the for loop is over, PUBLIC_FILES = file_map
LoadPublish(t) ==
    /\ ldPc[t] = "loop"
    /\ Iterable(data[t])
    /\ idx[t] > Len(Items(data[t]))
    /\ Rebind(file_map[t])
    /\ ldPc' = [ldPc EXCEPT ![t] = "ret_ok"]
    /\ UNCHANGED <<mainPc, refreshPc, data, file_map, idx, reqVars, harnessVars>>

\* the three returns (lines 55, 63, and the end of the function): the locals
\* go, and the caller goes on: the main thread to line 180, the refresh
\* thread to lines 87-88
LoadReturn(t) ==
    /\ ldPc[t] \in {"ret_missing", "ret_error", "ret_ok"}
    /\ ldPc' = [ldPc EXCEPT ![t] = "none"]
    /\ data' = [data EXCEPT ![t] = None]
    /\ file_map' = [file_map EXCEPT ![t] = EmptyMap]
    /\ idx' = [idx EXCEPT ![t] = 0]
    /\ IF t = "main"
       THEN mainPc' = "start_thread" /\ UNCHANGED refreshPc
       ELSE refreshPc' = "sleep" /\ UNCHANGED mainPc
    /\ UNCHANGED <<PUBLIC_FILES, snapCurrent, reqVars, harnessVars>>

---------------------------------------------------------------------------
(* __main__ and background_refresh_loop *)

\* line 181 moved above line 179: the refresh thread is started while the main
\* thread still is inside its own load_files_from_json
StartThreadBeforeLoad ==
    /\ mainPc = "load"
    /\ refreshPc = "not_started"
    /\ refreshPc' = "loading"
    /\ ldPc' = [ldPc EXCEPT !["refresh"] = "exists"]
    /\ UNCHANGED <<PUBLIC_FILES, snapCurrent, mainPc, data, file_map, idx, reqVars,
                   harnessVars>>

\* lines 180-183: the refresh thread starts with its first call of
\* load_files_from_json (lines 84-86), the main thread goes on to app.run
StartThread ==
    /\ mainPc = "start_thread"
    /\ mainPc' = "serving"
    /\ refreshPc' = "loading"
    /\ ldPc' = [ldPc EXCEPT !["refresh"] = "exists"]
    /\ UNCHANGED <<PUBLIC_FILES, snapCurrent, data, file_map, idx, reqVars, harnessVars>>

\* line 88 is over: the next turn of `while True` (lines 84-86)
RefreshWake ==
    /\ refreshPc = "sleep"
    /\ refreshPc' = "loading"
    /\ ldPc' = [ldPc EXCEPT !["refresh"] = "exists"]
    /\ UNCHANGED <<PUBLIC_FILES, snapCurrent, mainPc, data, file_map, idx, reqVars, harnessVars>>

\* app.run returns (line 183) and the main thread ends: the interpreter exits
\* and the refresh thread, a daemon (line 181), is stopped where it stands,
\* inside a cycle or asleep. The loop of lines 84-88 reads no flag and has no
\* exit of its own.
ProcessExit ==
    /\ mainPc = "serving"
    /\ mainPc' = "exited"
    /\ refreshPc' = "killed"
    /\ ldPc' = [ldPc EXCEPT !["refresh"] = "none"]
    /\ data' = [data EXCEPT !["refresh"] = None]
    /\ file_map' = [file_map EXCEPT !["refresh"] = EmptyMap]
    /\ idx' = [idx EXCEPT !["refresh"] = 0]
    /\ UNCHANGED <<PUBLIC_FILES, snapCurrent, reqVars, harnessVars>>

---------------------------------------------------------------------------
(* The request handlers. app.run (line 183) serves once the main thread is  *)
(* past the start of the refresh thread. index, view_file_qr_only and       *)
(* all_qr_codes read PUBLIC_FILES once; view_file reads it on line 111 and  *)
(* again on lines 120-121.                                                  *)

loadVars == <<mainPc, refreshPc, ldPc, data, file_map, idx>>

NotFound(handler, slug) == [kind |-> "not_found", handler |-> handler, slug |-> slug]

\* lines 91-104
Index ==
    /\ mainPc = "serving" /\ rqPc = "idle"
    /\ resp' = [kind |-> "index", handler |-> "index"]
    /\ UNCHANGED <<PUBLIC_FILES, snapCurrent, rqPc, rqSlug, file_data, loadVars, harnessVars>>

\* lines 111-113
ViewFileLookup(slug) ==
    /\ mainPc = "serving" /\ rqPc = "idle"
    /\ IF Get(PUBLIC_FILES, slug) = None
       THEN /\ resp' = NotFound("view_file", slug)
            /\ UNCHANGED <<rqPc, rqSlug, file_data, snapCurrent>>
       ELSE /\ file_data' = Get(PUBLIC_FILES, slug)
            /\ rqSlug' = slug
            /\ rqPc' = "lookup_done"
            /\ snapCurrent' = TRUE
            /\ resp' = NoResponse
    /\ UNCHANGED <<PUBLIC_FILES, loadVars, harnessVars>>

\* lines 116-132 with the entry read again as PUBLIC_FILES[slug], a KeyError
\* when the registry was replaced by one without the slug
ViewFileRenderRereads ==
    /\ mainPc = "serving" /\ rqPc = "lookup_done"
    /\ resp' = IF rqSlug \in DOMAIN PUBLIC_FILES
               THEN [kind |-> "page", handler |-> "view_file", slug |-> rqSlug,
                     file_title |-> PUBLIC_FILES[rqSlug].title,
                     embed_url |-> PUBLIC_FILES[rqSlug].iframeUrl,
                     one_snapshot |-> snapCurrent]
               ELSE [kind |-> "key_error", handler |-> "view_file", slug |-> rqSlug]
    /\ rqPc' = "idle"
    /\ rqSlug' = ""
    /\ file_data' = None
    /\ snapCurrent' = TRUE
    /\ UNCHANGED <<PUBLIC_FILES, loadVars, harnessVars>>

\* lines 116-132: the menu is read from PUBLIC_FILES as it is now
ViewFileRender ==
    /\ mainPc = "serving" /\ rqPc = "lookup_done"
    /\ resp' = [kind |-> "page", handler |-> "view_file", slug |-> rqSlug,
                file_title |-> file_data.title,
                embed_url |-> file_data.iframeUrl,
                one_snapshot |-> snapCurrent]
    /\ rqPc' = "idle"
    /\ rqSlug' = ""
    /\ file_data' = None
    /\ snapCurrent' = TRUE
    /\ UNCHANGED <<PUBLIC_FILES, loadVars, harnessVars>>

\* lines 135-152
ViewFileQrOnly(slug) ==
    /\ mainPc = "serving" /\ rqPc = "idle"
    /\ resp' = IF Get(PUBLIC_FILES, slug) = None
               THEN NotFound("view_file_qr_only", slug)
               ELSE [kind |-> "qr_only", handler |-> "view_file_qr_only", slug |-> slug]
    /\ UNCHANGED <<PUBLIC_FILES, snapCurrent, rqPc, rqSlug, file_data, loadVars, harnessVars>>

\* lines 155-176
AllQrCodes ==
    /\ mainPc = "serving" /\ rqPc = "idle"
    /\ resp' = [kind |-> "all_qr_codes", handler |-> "all_qr_codes"]
    /\ UNCHANGED <<PUBLIC_FILES, snapCurrent, rqPc, rqSlug, file_data, loadVars, harnessVars>>

---------------------------------------------------------------------------
(* The program *)

Load == \E t \in Threads :
    \/ LoadExists(t)
    \/ LoadOpenError(t)
    \/ LoadOpenOk(t)
    \/ LoadLoop(t)
    \/ LoadPublish(t)
    \/ LoadReturn(t)

Request ==
    \/ Index
    \/ \E slug \in RequestSlugs : ViewFileLookup(slug)
    \/ ViewFileRender
    \/ \E slug \in RequestSlugs : ViewFileQrOnly(slug)
    \/ AllQrCodes

Next ==
    \/ Load
    \/ StartThread
    \/ RefreshWake
    \/ ProcessExit
    \/ Request

Spec == Init /\ [][Next]_vars

---------------------------------------------------------------------------
(* slugify and maybe_add_embedded_param on their own: the argument is drawn *)
(* from a bounded set of strings, the function is applied to it, and then   *)
(* to its own result.                                                       *)

TitleAlphabet == {"A", "a", "1", "_", "-", " ", "!"}

UrlFragments == {"https://docs.google.com", "https://example.com", "/d/ABC",
                 "/edit", "/pub", "?", "&", "embedded=true", "rm=minimal"}

\* the strings made of at most n pieces
RECURSIVE Concats(_, _)
Concats(pieces, n) ==
    IF n = 0 THEN {""}
    ELSE LET shorter == Concats(pieces, n - 1)
         IN  shorter \cup {s \o p : s \in shorter, p \in pieces}

SlugInit ==
    /\ ProgInit
    /\ hStage = "title"
    /\ hArg \in Concats(TitleAlphabet, MaxTitleLen)
    /\ hOnce = ""
    /\ hTwice = ""

SlugifyOnce ==
    /\ hStage = "title"
    /\ hOnce' = slugify(hArg)
    /\ hStage' = "slug"
    /\ UNCHANGED <<hArg, hTwice, progVars>>

SlugifyTwice ==
    /\ hStage = "slug"
    /\ hTwice' = slugify(hOnce)
    /\ hStage' = "slug_of_slug"
    /\ UNCHANGED <<hArg, hOnce, progVars>>

SlugNext == SlugifyOnce \/ SlugifyTwice

SlugSpec == SlugInit /\ [][SlugNext]_vars

UrlInit ==
    /\ ProgInit
    /\ hStage = "url"
    /\ hArg \in Concats(UrlFragments, MaxUrlParts)
    /\ hOnce = ""
    /\ hTwice = ""

NormalizeOnce ==
    /\ hStage = "url"
    /\ hOnce' = maybe_add_embedded_param(hArg)
    /\ hStage' = "iframe_url"
    /\ UNCHANGED <<hArg, hTwice, progVars>>

NormalizeTwice ==
    /\ hStage = "iframe_url"
    /\ hTwice' = maybe_add_embedded_param(hOnce)
    /\ hStage' = "iframe_url_again"
    /\ UNCHANGED <<hArg, hOnce, progVars>>

UrlNext == NormalizeOnce \/ NormalizeTwice

UrlSpec == UrlInit /\ [][UrlNext]_vars

---------------------------------------------------------------------------
(* Properties *)

\* file_map after the for loop has gone through items[i..], none of which raises
RECURSIVE BuildFrom(_, _, _)
BuildFrom(fm, items, i) ==
    IF i > Len(items) THEN fm
    ELSE BuildFrom(IF BodySkips(items[i]) THEN fm ELSE BodyInsert(fm, items[i]),
                   items, i + 1)

\* the collision policy of the specification: the slug itself when it is
\* free, else the slug with the first suffix -2, -3, ... that is free
RECURSIVE FreeSuffix(_, _, _)
FreeSuffix(fm, slug, n) ==
    IF (slug \o "-" \o ToString(n)) \in DOMAIN fm
    THEN FreeSuffix(fm, slug, n + 1)
    ELSE slug \o "-" \o ToString(n)

InsertSuffixed(fm, entry) ==
    LET title == EntryTitle(entry).s
        url == Strip(EntryUrl(entry).s, Whitespace)
        slug == slugify(title)
        key == IF slug \in DOMAIN fm THEN FreeSuffix(fm, slug, 2) ELSE slug
    IN  Put(fm, key, [title |-> title, url |-> url,
                      iframeUrl |-> maybe_add_embedded_param(url)])

RECURSIVE SuffixedBuildFrom(_, _, _)
SuffixedBuildFrom(fm, items, i) ==
    IF i > Len(items) THEN fm
    ELSE SuffixedBuildFrom(IF BodySkips(items[i]) THEN fm ELSE InsertSuffixed(fm, items[i]),
                           items, i + 1)

\* thread t has just published the snapshot built from the list data[t]
Published(t) == ldPc[t] = "ret_ok" /\ data[t].t = "list"

EndsWith(s, t) == Len(s) >= Len(t) /\ SubSeq(s, Len(s) - Len(t) + 1, Len(s)) = t

\* C1: a cycle whose open/json.load fails with a caught error (the step from
\* line 57 to the return of line 63) leaves every lookup as it was before.
C1_FetchFailureKeepsSnapshot ==
    [][\A t \in Threads :
          (ldPc[t] = "open" /\ ldPc'[t] = "ret_error")
          => \A slug \in (DOMAIN PUBLIC_FILES) \cup (DOMAIN PUBLIC_FILES') \cup RequestSlugs :
                Get(PUBLIC_FILES', slug) = Get(PUBLIC_FILES, slug)]_vars

\* the records of the list that reach the build: those with a non-blank url
RawRecords(items) == {i \in 1..Len(items) : ~BodySkips(items[i])}

\* C2: the snapshot published from a list of N raw records has exactly N
\* entries (its keys are pairwise distinct, being the keys of one dict).
C2_OneEntryPerRecord ==
    \A t \in Threads :
        Published(t) => Cardinality(DOMAIN PUBLIC_FILES) = Cardinality(RawRecords(data[t].items))

\* C3: a page returned by view_file is made from one snapshot: the dict its
\* menu was read from is the dict its entry was looked up in.
C3_RequestSeesOneSnapshot ==
    resp.kind = "page" => resp.one_snapshot

\* C4: PUBLIC_FILES only ever changes to a completely built snapshot: to the
\* empty dict of a missing or unreadable file, or, when the for loop of one
\* cycle is over, to the dict built from all of that cycle's records. It never
\* changes while a cycle is still filling its file_map.
C4_OnlyCompleteSnapshots ==
    [][PUBLIC_FILES' # PUBLIC_FILES
       => \E t \in Threads :
             \/ /\ ldPc'[t] \in {"ret_missing", "ret_error"}
                /\ PUBLIC_FILES' = EmptyMap
             \/ /\ ldPc[t] = "loop"
                /\ ldPc'[t] = "ret_ok"
                /\ idx[t] > Len(Items(data[t]))
                /\ PUBLIC_FILES' = BuildFrom(EmptyMap, Items(data[t]), 1)]_vars

\* C4 witness: the refresh thread is in the middle of a build, its file_map
\* already holds an entry, and the registry still is the earlier, non-empty
\* snapshot.
C4_Witness ==
    /\ ldPc["refresh"] = "loop"
    /\ idx["refresh"] = 2
    /\ DOMAIN file_map["refresh"] # {}
    /\ DOMAIN PUBLIC_FILES # {}
    /\ PUBLIC_FILES # file_map["refresh"]

\* C5: no file content ends the refresh loop: the refresh thread never dies
\* of an exception raised inside a cycle.
C5_RefreshLoopNeverDies ==
    refreshPc # "crashed"

\* C6: the published snapshot is the one built with the suffix policy: a
\* record whose slug is taken is inserted under slug-2, slug-3, ...
C6_CollisionsGetSuffix ==
    \A t \in Threads :
        Published(t) => PUBLIC_FILES = SuffixedBuildFrom(EmptyMap, data[t].items, 1)

\* C7: no entry of the registry has the empty string as its slug.
C7_NoEmptySlug ==
    "" \notin DOMAIN PUBLIC_FILES

\* C8: an entry whose url is a docs.google.com URL ending in /edit has the
\* embed URL with /edit replaced by /preview?embedded=true&rm=minimal, and the
\* normalized title as its slug.
C8_EditUrlBecomesPreview ==
    \A slug \in DOMAIN PUBLIC_FILES :
        LET e == PUBLIC_FILES[slug] IN
        (Contains(e.url, "docs.google.com") /\ EndsWith(e.url, "/edit"))
        => /\ slug = slugify(e.title)
           /\ e.iframeUrl = SubSeq(e.url, 1, Len(e.url) - Len("/edit"))
                            \o "/preview?embedded=true&rm=minimal"

\* C9: slugify is idempotent: slugify(slugify(T)) = slugify(T).
C9_SlugifyIdempotent ==
    hStage = "slug_of_slug" => hTwice = hOnce

\* C9 witness: a title with a dash next to whitespace and a capital, slugified twice.
C9_Witness ==
    /\ hStage = "slug_of_slug"
    /\ hArg = " -A"
    /\ hOnce = "a"
    /\ hTwice = "a"

\* the number of places where t occurs in s
Occurrences(s, t) ==
    Cardinality({i \in 1..(Len(s) - Len(t) + 1) : SubSeq(s, i, i + Len(t) - 1) = t})

\* C10: maybe_add_embedded_param is idempotent: applied to its own result it
\* changes nothing, so it adds no second embedded=true and no second ?.
C10_NormalizeIdempotent ==
    hStage = "iframe_url_again"
    => /\ hTwice = hOnce
       /\ Occurrences(hTwice, "embedded=true") = Occurrences(hOnce, "embedded=true")
       /\ Occurrences(hTwice, "?") = Occurrences(hOnce, "?")

\* C10 witness: a published docs.google.com URL got ?embedded=true on the
\* first application and was normalized again.
C10_Witness ==
    /\ hStage = "iframe_url_again"
    /\ hArg = "https://docs.google.com/d/ABC/pub"
    /\ hOnce = "https://docs.google.com/d/ABC/pub?embedded=true"
    /\ hTwice = hOnce


\* C11: a cycle that finds no file at DATA_JSON_PATH returns normally (its
\* thread is still alive, at the return of line 55) with the registry empty,
\* so that the lookup of every slug finds nothing.
C11_MissingFileEmptiesRegistry ==
    \A t \in Threads :
        ldPc[t] = "ret_missing"
        => /\ PUBLIC_FILES = EmptyMap
           /\ \A slug \in RequestSlugs \cup {slugify(r.title.s) : r \in {x \in Records :
                      x.t = "object" /\ x.title.t = "str"}} :
                 Get(PUBLIC_FILES, slug) = None
           /\ IF t = "main" THEN mainPc = "load" ELSE refreshPc = "loading"

\* C11 witness: the refresh thread found no file while view_file holds an
\* entry of the earlier, non-empty snapshot.
C11_Witness ==
    /\ ldPc["refresh"] = "ret_missing"
    /\ rqPc = "lookup_done"
    /\ file_data # None
    /\ PUBLIC_FILES = EmptyMap

\* C12: a record without a url, or with a url made of whitespace only
BlankUrl(entry) ==
    \/ entry.url.t = "absent"
    \/ entry.url.t = "str" /\ CharsOf(entry.url.s) \subseteq Whitespace

\* C12: the snapshot the claim describes: blank-url records leave the map as
\* it is, every other record is stored, one without a title as "Untitled"
RECURSIVE SkipBlankBuild(_, _, _)
SkipBlankBuild(fm, items, i) ==
    IF i > Len(items) THEN fm
    ELSE IF BlankUrl(items[i]) THEN SkipBlankBuild(fm, items, i + 1)
    ELSE LET title == IF items[i].title.t = "absent" THEN "Untitled"
                      ELSE items[i].title.s
             url == Strip(items[i].url.s, Whitespace)
         IN  SkipBlankBuild(
                 [s \in (DOMAIN fm) \cup {slugify(title)} |->
                     IF s = slugify(title)
                     THEN [title |-> title, url |-> url,
                           iframeUrl |-> maybe_add_embedded_param(url)]
                     ELSE fm[s]],
                 items, i + 1)

\* C12: the snapshot a cycle publishes is the one built from its records with
\* the blank-url records left out: such a record adds no entry, touches no
\* entry of another record and does not stop the loop; a record with no
\* "title" key is stored with the title "Untitled".
C12_BlankUrlSkipped ==
    \A t \in Threads :
        Published(t)
        => PUBLIC_FILES = SkipBlankBuild(EmptyMap, data[t].items, 1)

\* C12 witness: a cycle whose first record has no url and whose second has no
\* title published the second one alone, as "Untitled".
C12_Witness ==
    /\ Published("refresh")
    /\ data["refresh"].items =
           <<JObj(JStr("My Doc"), JAbsent), JObj(JAbsent, JStr(DocEditUrl))>>
    /\ DOMAIN PUBLIC_FILES = {"untitled"}
    /\ PUBLIC_FILES["untitled"].title = "Untitled"

\* C13: the lookup of view_file and of view_file_qr_only finds the entry
\* exactly when the slug is a key of the registry as it is at that step, and
\* answers not-found otherwise; a view_file request that found its entry ends
\* with the page of that entry whatever became of the registry meanwhile. No
\* step of a handler ends in anything but one of these responses.
C13_LookupFollowsRegistry ==
    [][ /\ (rqPc = "idle" /\ rqPc' = "lookup_done")
            => /\ rqSlug' \in DOMAIN PUBLIC_FILES
               /\ file_data' = PUBLIC_FILES[rqSlug']
        /\ (resp' # resp /\ resp'.kind = "not_found")
            => resp'.slug \notin DOMAIN PUBLIC_FILES
        /\ (resp' # resp /\ resp'.kind = "qr_only")
            => resp'.slug \in DOMAIN PUBLIC_FILES
        /\ (rqPc = "lookup_done" /\ rqPc' = "idle")
            => /\ resp'.kind = "page"
               /\ resp'.slug = rqSlug
               /\ resp'.file_title = file_data.title
               /\ resp'.embed_url = file_data.iframeUrl
        /\ resp'.kind \in {"none", "index", "all_qr_codes", "not_found",
                           "qr_only", "page"}
      ]_vars

\* C13 witness: view_file answered with the page of an entry that a refresh
\* took out of the registry between the lookup and the answer.
C13_Witness ==
    /\ resp.kind = "page"
    /\ ~resp.one_snapshot
    /\ resp.slug \notin DOMAIN PUBLIC_FILES

\* C14: the refresh thread comes to an end only by a shutdown taken between
\* two cycles: the step that ends it starts in the idle phase (line 88) and
\* is the shutdown, never an exception and never a stop inside a cycle.
C14_StopsOnlyBetweenCycles ==
    [][(refreshPc' \in {"killed", "crashed"} /\ refreshPc \notin {"killed", "crashed"})
       => (refreshPc = "sleep" /\ mainPc' = "exited")]_vars

\* C15: the registry has one writer at a time. After every step at most one
\* thread is inside load_files_from_json, and the refresh thread exists only
\* once the load of the main thread has returned; a step of a request handler
\* (one that changes what a request holds or what it answered) leaves
\* PUBLIC_FILES as it was.
C15_SingleWriter ==
    [][ /\ ~(ldPc'["main"] # "none" /\ ldPc'["refresh"] # "none")
        /\ (refreshPc' # "not_started" => ldPc'["main"] = "none")
        /\ (reqVars' # reqVars => PUBLIC_FILES' = PUBLIC_FILES)
      ]_vars

\* C15 witness: the refresh thread is in the middle of a rebuild, the main
\* thread is past its own load and serving, and view_file is at work on an
\* entry it read from the registry.
C15_Witness ==
    /\ ldPc["refresh"] = "loop"
    /\ idx["refresh"] > 1
    /\ ldPc["main"] = "none"
    /\ mainPc = "serving"
    /\ rqPc = "lookup_done"

\* C16: the records of the list that reach the build and normalize to `slug`
SameSlugRecords(items, slug) ==
    {i \in 1..Len(items) :
        /\ ~BlankUrl(items[i])
        /\ slugify(IF items[i].title.t = "absent" THEN "Untitled"
                   ELSE items[i].title.s) = slug}

\* C16: the published snapshot has one key per slug of the cycle's non-blank
\* records, and the entry under a slug carries the title, url and iframeUrl
\* of the last record of that slug in input order.
C16_LastRecordWins ==
    \A t \in Threads :
        Published(t)
        => LET items == data[t].items
           IN  /\ DOMAIN PUBLIC_FILES =
                     {slugify(IF items[i].title.t = "absent" THEN "Untitled"
                              ELSE items[i].title.s) :
                         i \in {j \in 1..Len(items) : ~BlankUrl(items[j])}}
               /\ \A slug \in DOMAIN PUBLIC_FILES :
                     LET same == SameSlugRecords(items, slug)
                         last == CHOOSE i \in same : \A j \in same : j <= i
                         url == Strip(items[last].url.s, Whitespace)
                     IN  /\ same # {}
                         /\ PUBLIC_FILES[slug].title =
                                (IF items[last].title.t = "absent" THEN "Untitled"
                                 ELSE items[last].title.s)
                         /\ PUBLIC_FILES[slug].url = url
                         /\ PUBLIC_FILES[slug].iframeUrl = maybe_add_embedded_param(url)

\* C16 witness: two records of one cycle normalize to "q1report" and the
\* registry holds that slug once, with the second record's data.
C16_Witness ==
    /\ Published("refresh")
    /\ data["refresh"].items =
           <<JObj(JStr("Q1 Report"), JStr(" " \o DocPubUrl \o "\n")),
             JObj(JStr("Q1  Report!"), JStr(DocEditUrl))>>
    /\ DOMAIN PUBLIC_FILES = {"q1report"}
    /\ PUBLIC_FILES["q1report"].title = "Q1  Report!"
    /\ PUBLIC_FILES["q1report"].url = DocEditUrl

\* C17: maybe_add_embedded_param returns a URL without "docs.google.com"
\* as it is; when it changes a URL, the URL has "/pub" and no
\* "embedded=true", and the result is the URL followed by ?embedded=true when
\* it has no "?" and by &embedded=true when it has one.
C17_PassThroughAndSeparator ==
    hStage \in {"iframe_url", "iframe_url_again"}
    => /\ (~Contains(hArg, "docs.google.com") => hOnce = hArg)
       /\ (hOnce # hArg
           => /\ Contains(hArg, "/pub")
              /\ ~Contains(hArg, "embedded=true")
              /\ hOnce = hArg \o (IF Occurrences(hArg, "?") = 0 THEN "?" ELSE "&")
                              \o "embedded=true")

\* C17 witness: a published URL of another host went through unchanged.
C17_Witness ==
    /\ hStage = "iframe_url"
    /\ hArg = "https://example.com/pub"
    /\ hOnce = "https://example.com/pub"

\* C18: every entry of the registry is well formed, in every state: it is
\* stored under slugify of its title, its url is not empty and has no
\* whitespace at either end, and its iframeUrl is maybe_add_embedded_param of
\* its url.
C18_EntriesWellFormed ==
    \A slug \in DOMAIN PUBLIC_FILES :
        LET e == PUBLIC_FILES[slug]
        IN  /\ slug = slugify(e.title)
            /\ e.url # ""
            /\ Char(e.url, 1) \notin Whitespace
            /\ Char(e.url, Len(e.url)) \notin Whitespace
            /\ e.iframeUrl = maybe_add_embedded_param(e.url)

\* C18 witness: the refresh thread is asleep after a cycle of two records,
\* one of them written with whitespace around its url; the registry holds
\* that record with the url stripped and the embedded parameter added.
C18_Witness ==
    /\ refreshPc = "sleep"
    /\ "q1report" \in DOMAIN PUBLIC_FILES
    /\ PUBLIC_FILES["q1report"].title = "Q1 Report"
    /\ PUBLIC_FILES["q1report"].url = DocPubUrl
    /\ PUBLIC_FILES["q1report"].iframeUrl = DocPubUrl \o "?embedded=true"
    /\ Cardinality(DOMAIN PUBLIC_FILES) = 2
=============================================================================
